---- MODULE Spec2Model ----
(***************************************************************************)
(* gardenmon (src/gardenmon.py): five sensor drivers, each with a read     *)
(* that may raise and a get_value that turns a failure into a fixed value, *)
(* and gardenmon_main, which constructs the drivers and then loops:        *)
(* sample the five drivers, build one row, append it to two CSV files,     *)
(* insert it into the database, sleep.                                     *)
(*                                                                         *)
(* Python floats are modelled as exact rationals in lowest terms           *)
(* ([n, d], d > 0); an f"{x:0.1f}" is modelled by rounding to tenths and   *)
(* printing the digits.  A Python call's result is [exc, val]: the         *)
(* exception that escapes it ("none" when it returns) and the value.       *)
(***************************************************************************)
EXTENDS Integers, Sequences, FiniteSets, TLC

VARIABLES
    pc,            \* position of gardenmon_main
    busAvailable,  \* environment: /dev/i2c-1 can be opened
    w1Devices,     \* environment: number of /sys/bus/w1/devices/28* directories
    constructed,   \* the drivers constructed so far, in order
    cycle,         \* number of iterations of the while loop begun
    current_time,  \* datetime.datetime.now() of this iteration
    row,           \* the row being built
    calls,         \* the drivers whose get_value was called in this iteration
    inp,           \* what each driver's bus/file transaction delivered
    reads,         \* number of reads of the w1_slave file in this iteration
    vals,          \* cpu_temp_val, aths_vals, sts_temperature, sms_val, als_val
    log,           \* messages logged in this iteration
    files,         \* rows appended to each file of /var/log/gardenmon
    data,          \* the tuple handed to cursor.execute
    connection,    \* the local "connection": unbound, connected or closed
    exc            \* the exception that ended the process, and where

vars == <<pc, busAvailable, w1Devices, constructed, cycle, current_time, row,
          calls, inp, reads, vals, log, files, data, connection, exc>>

-----------------------------------------------------------------------------
(* Bounds of the model *)

\* iterations of the while loop the model follows
MaxCycles == 2

\* 1-Wire device directories that may be present at startup
MaxW1Devices == 2

-----------------------------------------------------------------------------
(* Rationals standing for Python floats *)

Abs(x) == IF x < 0 THEN -x ELSE x

RECURSIVE GCD(_, _)
GCD(a, b) == IF b = 0 THEN a ELSE GCD(b, a % b)

Rat(n, d) == LET g == GCD(Abs(n), d) IN [n |-> n \div g, d |-> d \div g]

RatAdd(a, b) == Rat(a.n * b.d + b.n * a.d, a.d * b.d)

RatMul(a, b) == Rat(a.n * b.n, a.d * b.d)

\* a < b, by integer parts first (the cross product of two float-sized
\* fractions does not fit TLC's integers)
RatLess(a, b) ==
    LET fa == a.n \div a.d
        fb == b.n \div b.d
    IN  \/ fa < fb
        \/ fa = fb /\ (a.n % a.d) * b.d < (b.n % b.d) * a.d

\* round(10 * x) as the :0.1f conversion rounds it (ties to even)
RoundTenths(x) ==
    LET q == (10 * x.n) \div x.d
        r == (10 * x.n) % x.d
    IN  IF 2 * r < x.d THEN q
        ELSE IF 2 * r > x.d THEN q + 1
        ELSE IF q % 2 = 0 THEN q ELSE q + 1

\* f"{x:0.1f}"
Format1f(x) ==
    LET t == RoundTenths(x)
        a == Abs(t)
    IN  (IF x.n < 0 THEN "-" ELSE "")
        \o ToString(a \div 10) \o "." \o ToString(a % 10)

\* f"{i}" of an int
FormatInt(i) == (IF i < 0 THEN "-" ELSE "") \o ToString(Abs(i))

Return(v) == [exc |-> "none", val |-> v]

Raise(e) == [exc |-> e]

-----------------------------------------------------------------------------
(* c_to_f *)

c_to_f(c) == RatAdd(RatMul(c, Rat(18, 10)), Rat(32, 1))

-----------------------------------------------------------------------------
(* cpu_temp *)

\* what /sys/class/thermal/thermal_zone0/temp may hold
CpuFiles ==
    {[readable |-> FALSE, isint |-> FALSE, milli |-> 0],
     [readable |-> TRUE,  isint |-> FALSE, milli |-> 0]}
    \cup {[readable |-> TRUE, isint |-> TRUE, milli |-> m] : m \in {45000, 61234}}

cpu_temp_read(f) ==
    IF ~f.readable THEN Raise("OSError")
    ELSE IF ~f.isint THEN Raise("ValueError")
    ELSE Return(c_to_f(Rat(f.milli, 1000)))

\* a get_value that lets the exception of read through
cpu_temp_get_value_unguarded(f) ==
    LET r == cpu_temp_read(f)
    IN  IF r.exc = "none"
        THEN [exc |-> "none", val |-> r.val, logged |-> <<>>]
        ELSE [exc |-> r.exc, logged |-> <<>>]

cpu_temp_get_value(f) ==
    LET r == cpu_temp_read(f)
    IN  IF r.exc = "none"
        THEN [exc |-> "none", val |-> r.val, logged |-> <<>>]
        ELSE [exc |-> "none", val |-> Rat(999999, 10),
              logged |-> <<"Failure to read CPU temp sensor">>]

-----------------------------------------------------------------------------
(* I2C block reads *)

Byte == 0..255

ByteSamples == {0, 1, 39, 127, 128, 255}

\* data[i] << 8 | data[j] of two bytes
Word(hi, lo) == hi * 256 + lo

\* smbus.SMBus(1)
SMBus(available) == IF available THEN Return("bus") ELSE Raise("OSError")

-----------------------------------------------------------------------------
(* aths *)

aths_init(available) == SMBus(available)

aths_read(b) ==
    IF ~b.ok THEN Raise("OSError")
    ELSE LET temperature_raw == Word(b.data[1], b.data[2])
             humidity_raw    == Word(b.data[4], b.data[5])
         IN  Return([temperature |->
                        RatAdd(RatAdd(Rat(temperature_raw * 315, 65535), Rat(-49, 1)),
                               Rat(0, 1)),
                     humidity |->
                        RatAdd(Rat(humidity_raw * 100, 65535), Rat(0, 1))])

aths_get_value(b) ==
    LET r == aths_read(b)
    IN  IF r.exc = "none"
        THEN [exc |-> "none", val |-> r.val, logged |-> <<>>]
        ELSE [exc |-> "none",
              val |-> [temperature |-> Rat(99999, 10), humidity |-> Rat(99999, 10)],
              logged |-> <<"Failure to read Ambient Temperature/Humidity Sensor">>]

-----------------------------------------------------------------------------
(* sts *)

\* a constructor that goes on without a device
sts_init_fallback(n) == Return(IF n = 0 THEN 0 ELSE 1)

\* glob.glob(base_dir + '28*')[0] with n matching directories
sts_init(n) == IF n = 0 THEN Raise("IndexError") ELSE Return(1)

\* One content of the w1_slave file: whether open succeeds, whether line 0
\* holds "YES", whether line 1 holds "t=", whether float() accepts what
\* follows, and the number it yields.
W1Contents ==
    {[readable |-> FALSE, yes |-> FALSE, hasT |-> FALSE, parses |-> FALSE, t |-> 0]}
    \cup {[readable |-> TRUE, yes |-> y, hasT |-> h, parses |-> FALSE, t |-> 0] :
             y \in BOOLEAN, h \in BOOLEAN}
    \cup {[readable |-> TRUE, yes |-> y, hasT |-> TRUE, parses |-> TRUE, t |-> t] :
             y \in BOOLEAN, t \in {23125, -1500}}
    \cup {[readable |-> TRUE, yes |-> TRUE, hasT |-> FALSE, parses |-> TRUE, t |-> 5]}

W1Ready == {c \in W1Contents : c.readable /\ c.yes /\ c.hasT /\ c.parses}

\* what successive reads of the file return
W1Files == {<<a, b>> : a \in W1Contents, b \in W1Ready}

\* the lines of one content, parsed as sts.read parses them
sts_parse(c) ==
    IF ~c.readable THEN Raise("OSError")
    ELSE IF ~c.yes /\ ~c.hasT THEN Raise("RuntimeError")
    ELSE IF ~c.parses THEN Raise("ValueError")
    ELSE Return(RatAdd(c_to_f(Rat(c.t, 1000)), Rat(-22, 10)))

RECURSIVE FirstReady(_, _)
FirstReady(w, i) ==
    IF i >= Len(w) \/ ~w[i].readable \/ w[i].yes THEN i ELSE FirstReady(w, i + 1)

\* a read that polls the file until line 0 holds "YES"
sts_read_polling(w) ==
    LET k == FirstReady(w, 1) IN sts_parse(w[k]) @@ [nreads |-> k]

\* one readlines() of the file, then the parse
sts_read(w) == sts_parse(w[1]) @@ [nreads |-> 1]

sts_get_value(w) ==
    LET r == sts_read(w)
    IN  IF r.exc = "none"
        THEN [exc |-> "none", val |-> r.val, logged |-> <<>>, nreads |-> r.nreads]
        ELSE [exc |-> "none", val |-> Rat(999999, 10),
              logged |-> <<"Failure to read Soil Temperature Sensor">>,
              nreads |-> r.nreads]

-----------------------------------------------------------------------------
(* sms *)

sms_init(available) == SMBus(available)

\* a read that decodes the word as signed 16-bit and shifts it by 4800
sms_read_signed(b) ==
    IF ~b.ok THEN Raise("OSError")
    ELSE LET raw == Word(b.data[1], b.data[2])
         IN  Return((IF raw >= 32768 THEN raw - 65536 ELSE raw) + 4800)

sms_read(b) ==
    IF ~b.ok THEN Raise("OSError")
    ELSE Return(Word(b.data[1], b.data[2]) + 0)

\* a get_value whose failure value is a word the ADC can deliver
sms_get_value_9999(b) ==
    LET r == sms_read(b)
    IN  IF r.exc = "none"
        THEN [exc |-> "none", val |-> r.val, logged |-> <<>>]
        ELSE [exc |-> "none", val |-> 9999,
              logged |-> <<"Failure to read Soil Moisture Sensor">>]

sms_get_value(b) ==
    LET r == sms_read(b)
    IN  IF r.exc = "none"
        THEN [exc |-> "none", val |-> r.val, logged |-> <<>>]
        ELSE [exc |-> "none", val |-> 99999,
              logged |-> <<"Failure to read Soil Moisture Sensor">>]

-----------------------------------------------------------------------------
(* als *)

als_init(available) == SMBus(available)

als_read(b) ==
    IF ~b.ok THEN Raise("OSError")
    ELSE Return(RatAdd(Rat(Word(b.data[1], b.data[2]) * 10, 12), Rat(0, 1)))

\* a get_value whose failure value is 9999.9
als_get_value_9999(b) ==
    LET r == als_read(b)
    IN  IF r.exc = "none"
        THEN [exc |-> "none", val |-> r.val, logged |-> <<>>]
        ELSE [exc |-> "none", val |-> Rat(99999, 10),
              logged |-> <<"Failure to read Ambient Light Sensor">>]

als_get_value(b) ==
    LET r == als_read(b)
    IN  IF r.exc = "none"
        THEN [exc |-> "none", val |-> r.val, logged |-> <<>>]
        ELSE [exc |-> "none", val |-> Rat(999999, 10),
              logged |-> <<"Failure to read Ambient Light Sensor">>]

-----------------------------------------------------------------------------
(* What the environment may deliver to gardenmon_main *)

Failed == [ok |-> FALSE, data |-> <<>>]

Block(d) == [ok |-> TRUE, data |-> d]

\* 6-byte blocks of the SHT30: temperature MSB, LSB, CRC, humidity MSB, LSB, CRC
AthsBlocks == {Failed} \cup {Block(<<t, 255, 0, h, 255, 0>>) : t, h \in {0, 127, 255}}

\* 2-byte blocks of the MCP3221
SmsBlocks == {Failed} \cup {Block(<<h, 15>>) : h \in {0, 39, 128, 255}}

\* 2-byte blocks of the BH1750
AlsBlocks == {Failed} \cup {Block(<<h, l>>) : h \in {0, 255}, l \in {0, 255}}

\* datetime.datetime.now()
Times == {[date |-> "2024-05-01", time |-> "23:59:59"],
          [date |-> "2024-05-02", time |-> "00:00:00"]}

\* current_time.strftime('%Y-%m-%d %H:%M:%S')
strftime(t) == t.date \o " " \o t.time

main_csv == "main.csv"

\* f"{current_time.date()}.csv"
daily_csv(t) == t.date \o ".csv"

FileNames == {main_csv} \cup {daily_csv(t) : t \in Times}

\* the names bound in the module's namespace when gardenmon_main runs
ModuleGlobals ==
    {"ABC", "abstractmethod", "csv", "datetime", "glob", "logging", "mysql",
     "os", "smbus", "sys", "time", "INSERT_STATEMENT", "c_to_f", "sensor",
     "cpu_temp", "aths", "sts", "sms", "als", "gardenmon_main"}

-----------------------------------------------------------------------------
(* gardenmon_main: startup *)

Init ==
    /\ pc = "start"
    /\ busAvailable \in BOOLEAN
    /\ w1Devices \in 0..MaxW1Devices
    /\ constructed = <<>>
    /\ cycle = 0
    /\ current_time = [date |-> "", time |-> ""]
    /\ row = <<>>
    /\ calls = <<>>
    /\ inp = <<>>
    /\ reads = 0
    /\ vals = <<>>
    /\ log = <<>>
    /\ files = [f \in FileNames |-> <<>>]
    /\ data = <<>>
    /\ connection = "unbound"
    /\ exc = [type |-> "none", at |-> "none"]

\* a statement order with soil moisture sampled before soil temperature
NextStepSwapped(p) ==
    CASE p = "start"       -> "cons_aths"
      [] p = "cons_aths"   -> "cons_sts"
      [] p = "cons_sts"    -> "cons_sms"
      [] p = "cons_sms"    -> "cons_als"
      [] p = "cons_als"    -> "starting"
      [] p = "starting"    -> "loop"
      [] p = "loop"        -> "cpu_temp"
      [] p = "cpu_temp"    -> "aths"
      [] p = "aths"        -> "sms"
      [] p = "sms"         -> "sts"
      [] p = "sts"         -> "als"
      [] p = "als"         -> "write_main"
      [] p = "write_main"  -> "write_daily"
      [] p = "write_daily" -> "db"
      [] p = "db"          -> "loop"

\* the statement after each statement of gardenmon_main
NextStep(p) ==
    CASE p = "start"       -> "cons_aths"
      [] p = "cons_aths"   -> "cons_sts"
      [] p = "cons_sts"    -> "cons_sms"
      [] p = "cons_sms"    -> "cons_als"
      [] p = "cons_als"    -> "starting"
      [] p = "starting"    -> "loop"
      [] p = "loop"        -> "cpu_temp"
      [] p = "cpu_temp"    -> "aths"
      [] p = "aths"        -> "sts"
      [] p = "sts"         -> "sms"
      [] p = "sms"         -> "als"
      [] p = "als"         -> "write_main"
      [] p = "write_main"  -> "write_daily"
      [] p = "write_daily" -> "db"
      [] p = "db"          -> "loop"

\* an exception nobody catches ends the process
Crash(e, where) ==
    /\ pc' = "crashed"
    /\ exc' = [type |-> e, at |-> where]

\* one constructor call of gardenmon_main
Construct(name, r) ==
    /\ IF r.exc = "none"
       THEN /\ constructed' = Append(constructed, name)
            /\ pc' = NextStep(pc)
            /\ exc' = exc
       ELSE /\ Crash(r.exc, name \o ".__init__")
            /\ constructed' = constructed
    /\ UNCHANGED <<busAvailable, w1Devices, cycle, current_time, row, calls,
                   inp, reads, vals, log, files, data, connection>>

\* logging.basicConfig, the log folder, cpu_temp()
ConstructCpuTemp ==
    /\ pc = "start"
    /\ Construct("cpu_temp", Return("cpu_temp"))

ConstructAths ==
    /\ pc = "cons_aths"
    /\ Construct("aths", aths_init(busAvailable))

ConstructSts ==
    /\ pc = "cons_sts"
    /\ Construct("sts", sts_init(w1Devices))

ConstructSms ==
    /\ pc = "cons_sms"
    /\ Construct("sms", sms_init(busAvailable))

ConstructAls ==
    /\ pc = "cons_als"
    /\ Construct("als", als_init(busAvailable))

\* time.sleep(1); logging.info("gardenmon starting...")
Starting ==
    /\ pc = "starting"
    /\ pc' = NextStep(pc)
    /\ UNCHANGED <<busAvailable, w1Devices, constructed, cycle, current_time,
                   row, calls, inp, reads, vals, log, files, data, connection,
                   exc>>

-----------------------------------------------------------------------------
(* gardenmon_main: one iteration of the while loop *)

\* current_time, timestamp, row = [timestamp]
LoopTop ==
    /\ pc = "loop"
    /\ cycle < MaxCycles
    /\ \E now \in Times :
          /\ current_time' = now
          /\ row' = <<strftime(now)>>
    /\ cycle' = cycle + 1
    /\ calls' = <<>>
    /\ inp' = <<>>
    /\ reads' = 0
    /\ log' = <<>>
    /\ pc' = NextStep(pc)
    /\ UNCHANGED <<busAvailable, w1Devices, constructed, vals, files, data,
                   connection, exc>>

\* x = driver.get_value(); row.extend(cells)
Sample(name, given, r, cells) ==
    /\ calls' = Append(calls, name)
    /\ inp' = (name :> given) @@ inp
    /\ log' = log \o r.logged
    /\ IF r.exc = "none"
       THEN /\ vals' = (name :> r.val) @@ vals
            /\ row' = row \o cells
            /\ pc' = NextStep(pc)
            /\ exc' = exc
       ELSE /\ Crash(r.exc, name \o ".get_value")
            /\ UNCHANGED <<vals, row>>
    /\ UNCHANGED <<busAvailable, w1Devices, constructed, cycle, current_time,
                   files, data, connection>>

GetCpuTemp ==
    /\ pc = "cpu_temp"
    /\ \E f \in CpuFiles :
          LET r == cpu_temp_get_value(f)
          IN  Sample("cpu_temp", f, r,
                     IF r.exc = "none"
                     THEN <<"CPU Temperature", Format1f(r.val), "F">> ELSE <<>>)
    /\ reads' = reads

GetAths ==
    /\ pc = "aths"
    /\ \E b \in AthsBlocks :
          LET r == aths_get_value(b)
          IN  Sample("aths", b, r,
                     IF r.exc = "none"
                     THEN <<"Ambient Temperature", Format1f(r.val.temperature), "F",
                            "Ambient Humidity", Format1f(r.val.humidity), "%">>
                     ELSE <<>>)
    /\ reads' = reads

GetSts ==
    /\ pc = "sts"
    /\ \E w \in W1Files :
          LET r == sts_get_value(w)
          IN  /\ Sample("sts", w, r,
                        IF r.exc = "none"
                        THEN <<"Soil Temperature", Format1f(r.val), "F">> ELSE <<>>)
              /\ reads' = reads + r.nreads

GetSms ==
    /\ pc = "sms"
    /\ \E b \in SmsBlocks :
          LET r == sms_get_value(b)
          IN  Sample("sms", b, r,
                     IF r.exc = "none"
                     THEN <<"Soil Moisture Value", FormatInt(r.val), "decimal_value">>
                     ELSE <<>>)
    /\ reads' = reads

GetAls ==
    /\ pc = "als"
    /\ \E b \in AlsBlocks :
          LET r == als_get_value(b)
          IN  Sample("als", b, r,
                     IF r.exc = "none"
                     THEN <<"Ambient Light", Format1f(r.val), "lx">> ELSE <<>>)
    /\ reads' = reads

\* csv.writer(csvfile).writerow(row) on a file opened for appending
Appended(name) == [files EXCEPT ![name] = Append(@, row)]

WriteMainCsv ==
    /\ pc = "write_main"
    /\ files' = Appended(main_csv)
    /\ pc' = NextStep(pc)
    /\ UNCHANGED <<busAvailable, w1Devices, constructed, cycle, current_time,
                   row, calls, inp, reads, vals, log, data, connection, exc>>

WriteDailyCsv ==
    /\ pc = "write_daily"
    /\ files' = Appended(daily_csv(current_time))
    /\ pc' = NextStep(pc)
    /\ UNCHANGED <<busAvailable, w1Devices, constructed, cycle, current_time,
                   row, calls, inp, reads, vals, log, data, connection, exc>>

\* the try block: the names host, database and insert_stmt are looked up in
\* the module's namespace; connect and execute may raise mysql.connector.Error
db_try(conn, connect_ok, execute_ok) ==
    IF ~({"host", "database"} \subseteq ModuleGlobals)
    THEN [exc |-> "NameError", connection |-> conn]
    ELSE IF ~connect_ok
    THEN [exc |-> "mysql.connector.Error", connection |-> conn]
    ELSE IF "insert_stmt" \notin ModuleGlobals
    THEN [exc |-> "NameError", connection |-> "connected"]
    ELSE IF ~execute_ok
    THEN [exc |-> "mysql.connector.Error", connection |-> "connected"]
    ELSE [exc |-> "none", connection |-> "connected"]

\* except mysql.connector.Error as e: logging.info(...)
db_except(t) ==
    IF t.exc = "mysql.connector.Error"
    THEN [exc |-> "none", connection |-> t.connection,
          logged |-> <<"An error occurred">>]
    ELSE [exc |-> t.exc, connection |-> t.connection, logged |-> <<>>]

\* finally: if connection and connection.is_connected(): close
db_finally(t) ==
    IF t.connection = "unbound"
    THEN [exc |-> "UnboundLocalError", connection |-> "unbound", logged |-> t.logged]
    ELSE [exc |-> t.exc, connection |-> "closed", logged |-> t.logged]

\* data = (...); try/except/finally; time.sleep(1)
DbStep ==
    /\ pc = "db"
    /\ data' = <<vals["cpu_temp"], vals["als"], vals["sms"], 5, vals["sts"],
                 vals["aths"].temperature, vals["aths"].humidity, current_time>>
    /\ \E connect_ok \in BOOLEAN, execute_ok \in BOOLEAN :
          LET r == db_finally(db_except(db_try(connection, connect_ok, execute_ok)))
          IN  /\ connection' = r.connection
              /\ log' = log \o r.logged
              /\ IF r.exc = "none"
                 THEN pc' = NextStep(pc) /\ exc' = exc
                 ELSE Crash(r.exc, "gardenmon_main")
    /\ UNCHANGED <<busAvailable, w1Devices, constructed, cycle, current_time,
                   row, calls, inp, reads, vals, files>>

Next ==
    \/ ConstructCpuTemp
    \/ ConstructAths
    \/ ConstructSts
    \/ ConstructSms
    \/ ConstructAls
    \/ Starting
    \/ LoopTop
    \/ GetCpuTemp
    \/ GetAths
    \/ GetSts
    \/ GetSms
    \/ GetAls
    \/ WriteMainCsv
    \/ WriteDailyCsv
    \/ DbStep

Spec == Init /\ [][Next]_vars

-----------------------------------------------------------------------------
(* The drivers on their own: one get_value call on one driver, for every     *)
(* transaction the bus or the file system may deliver                       *)

\* the transaction handed to the one driver under call
DriverInput(x) ==
    \/ \E f \in CpuFiles : x = "cpu_temp" :> f
    \/ \E w \in W1Files : x = "sts" :> w
    \/ \E d \in {"aths", "sms", "als"} : x = d :> Failed
    \/ \E th \in Byte, tl \in ByteSamples, hh \in ByteSamples, hl \in {0, 255} :
          x = "aths" :> Block(<<th, tl, 0, hh, hl, 0>>)
    \/ \E th \in ByteSamples, tl \in {0, 255}, hh \in Byte, hl \in ByteSamples :
          x = "aths" :> Block(<<th, tl, 0, hh, hl, 0>>)
    \/ \E h \in Byte, l \in Byte : x = "sms" :> Block(<<h, l>>)
    \/ \E h \in Byte, l \in Byte : x = "als" :> Block(<<h, l>>)

InitDrivers ==
    /\ pc = "driver"
    /\ busAvailable = TRUE
    /\ w1Devices = 1
    /\ constructed = <<"cpu_temp", "aths", "sts", "sms", "als">>
    /\ cycle = 0
    /\ current_time = [date |-> "", time |-> ""]
    /\ row = <<>>
    /\ calls = <<>>
    /\ DriverInput(inp)
    /\ reads = 0
    /\ vals = <<>>
    /\ log = <<>>
    /\ files = [f \in FileNames |-> <<>>]
    /\ data = <<>>
    /\ connection = "unbound"
    /\ exc = [type |-> "none", at |-> "none"]

\* x = driver.get_value()
Call(name, r) ==
    /\ pc = "driver"
    /\ calls' = Append(calls, name)
    /\ log' = log \o r.logged
    /\ IF r.exc = "none"
       THEN /\ vals' = (name :> r.val) @@ vals
            /\ pc' = "returned"
            /\ exc' = exc
       ELSE /\ Crash(r.exc, name \o ".get_value")
            /\ vals' = vals
    /\ UNCHANGED <<busAvailable, w1Devices, constructed, cycle, current_time,
                   row, inp, files, data, connection>>

CallCpuTemp ==
    /\ "cpu_temp" \in DOMAIN inp
    /\ Call("cpu_temp", cpu_temp_get_value(inp["cpu_temp"]))
    /\ reads' = reads

CallAths ==
    /\ "aths" \in DOMAIN inp
    /\ Call("aths", aths_get_value(inp["aths"]))
    /\ reads' = reads

CallSts ==
    /\ "sts" \in DOMAIN inp
    /\ LET r == sts_get_value(inp["sts"])
       IN  Call("sts", r) /\ reads' = reads + r.nreads

CallSms ==
    /\ "sms" \in DOMAIN inp
    /\ Call("sms", sms_get_value(inp["sms"]))
    /\ reads' = reads

CallAls ==
    /\ "als" \in DOMAIN inp
    /\ Call("als", als_get_value(inp["als"]))
    /\ reads' = reads

NextDrivers ==
    \/ CallCpuTemp
    \/ CallAths
    \/ CallSts
    \/ CallSms
    \/ CallAls

SpecDrivers == InitDrivers /\ [][NextDrivers]_vars

-----------------------------------------------------------------------------
(* Properties *)

\* the drivers whose read raised in this iteration, as the log shows them
FailedDrivers ==
    {d \in {"cpu_temp", "aths", "sts", "sms", "als"} :
        \E i \in 1..Len(log) :
            log[i] = CASE d = "cpu_temp" -> "Failure to read CPU temp sensor"
                       [] d = "aths" -> "Failure to read Ambient Temperature/Humidity Sensor"
                       [] d = "sts"  -> "Failure to read Soil Temperature Sensor"
                       [] d = "sms"  -> "Failure to read Soil Moisture Sensor"
                       [] d = "als"  -> "Failure to read Ambient Light Sensor"}

\* the five sampling statements are behind, the row is built
RowBuilt ==
    \/ pc \in {"write_main", "write_daily", "db"}
    \/ pc = "crashed" /\ exc.at = "gardenmon_main"

\* C1: in every iteration get_value is called exactly once on each driver, in
\* the order CPU temperature, ambient temperature/humidity, soil temperature,
\* soil moisture, ambient light, whichever drivers fail: before each sampling
\* statement exactly the drivers ahead of it have been called, and when the
\* row is built all five have, each once.
C1_OncePerCycleInOrder ==
    LET order == <<"cpu_temp", "aths", "sts", "sms", "als">>
    IN  /\ \A i \in 1..5 : pc = order[i] => calls = SubSeq(order, 1, i - 1)
        /\ RowBuilt => calls = order
        /\ pc = "crashed" /\ cycle > 0 => exc.at = "gardenmon_main"

\* C1 witness: a row is built in an iteration where the first three drivers
\* failed and the last two were still sampled
C1_Witness ==
    /\ pc = "write_main"
    /\ FailedDrivers = {"cpu_temp", "aths", "sts"}
    /\ calls = <<"cpu_temp", "aths", "sts", "sms", "als">>

\* C2: no exception leaves a get_value, and the row built in an iteration
\* has 19 cells: the timestamp, then six label/value/unit triples at fixed
\* positions, a failing driver's value cell holding its failure value.
C2_FullWidthRow ==
    /\ exc.at \notin {d \o ".get_value" : d \in {"cpu_temp", "aths", "sts", "sms", "als"}}
    /\ RowBuilt =>
          /\ Len(row) = 19
          /\ row[1] = strftime(current_time)
          /\ <<row[2], row[5], row[8], row[11], row[14], row[17]>>
                = <<"CPU Temperature", "Ambient Temperature", "Ambient Humidity",
                    "Soil Temperature", "Soil Moisture Value", "Ambient Light">>
          /\ <<row[4], row[7], row[10], row[13], row[16], row[19]>>
                = <<"F", "F", "%", "F", "decimal_value", "lx">>
          /\ "cpu_temp" \in FailedDrivers => row[3] = "99999.9"
          /\ "aths" \in FailedDrivers => row[6] = "9999.9" /\ row[9] = "9999.9"
          /\ "sts" \in FailedDrivers => row[12] = "99999.9"
          /\ "sms" \in FailedDrivers => row[15] = "99999"
          /\ "als" \in FailedDrivers => row[18] = "99999.9"

\* C2 witness: a row built under total sensor failure
C2_Witness ==
    /\ RowBuilt
    /\ FailedDrivers = {"cpu_temp", "aths", "sts", "sms", "als"}
    /\ Len(row) = 19

\* the I2C drivers whose transaction failed in this iteration and whose
\* get_value has returned
FailedI2C == {d \in {"aths", "sms", "als"} \cap DOMAIN inp \cap DOMAIN vals : ~inp[d].ok}

\* C3 as stated: a failing bus transaction yields {9999.9, 9999.9} from the
\* ambient temperature/humidity driver, the integer 9999 from the soil
\* moisture driver and 9999.9 from the ambient light driver.
C3_SentinelsAsStated ==
    /\ "aths" \in FailedI2C =>
          vals["aths"] = [temperature |-> Rat(99999, 10), humidity |-> Rat(99999, 10)]
    /\ "sms" \in FailedI2C => vals["sms"] = 9999
    /\ "als" \in FailedI2C => vals["als"] = Rat(99999, 10)

\* C3 amended: a failing bus transaction yields {9999.9, 9999.9} from the
\* ambient temperature/humidity driver, the integer 99999 from the soil
\* moisture driver and 99999.9 from the ambient light driver.
C3_Sentinels ==
    /\ "aths" \in FailedI2C =>
          vals["aths"] = [temperature |-> Rat(99999, 10), humidity |-> Rat(99999, 10)]
    /\ "sms" \in FailedI2C => vals["sms"] = 99999
    /\ "als" \in FailedI2C => vals["als"] = Rat(999999, 10)

\* C3 witness: all three I2C transactions failed in one iteration
C3_Witness == FailedI2C = {"aths", "sms", "als"}

\* C4: once the five drivers are constructed the process does not end by
\* itself.
C4_LoopNeverStops == Len(constructed) = 5 => pc # "crashed"

\* the soil temperature driver's get_value has returned in this iteration
StsReturned == "sts" \in DOMAIN inp /\ "sts" \in DOMAIN vals

C6_MissingDeviceAborts ==
    w1Devices = 0 =>
        /\ pc \in {"start", "cons_aths", "cons_sts", "crashed"}
        /\ constructed \in {<<>>, <<"cpu_temp">>, <<"cpu_temp", "aths">>}
        /\ cycle = 0
        /\ \A f \in FileNames : files[f] = <<>>
        /\ DOMAIN vals = {}
        /\ row = <<>>
        /\ pc = "crashed" /\ busAvailable =>
              exc = [type |-> "IndexError", at |-> "sts.__init__"]

\* C6 witness: startup aborted in sts.__init__
C6_Witness ==
    /\ w1Devices = 0
    /\ pc = "crashed"
    /\ exc.at = "sts.__init__"

\* C7: when line 0 of the device file lacks YES, read returns no
\* temperature: get_value yields the failure value.
C7_NoValueWithoutYes ==
    StsReturned /\ inp["sts"][1].readable /\ ~inp["sts"][1].yes =>
        vals["sts"] = Rat(999999, 10)

\* decode_twos_complement_16
Signed16(raw) == IF raw >= 32768 THEN raw - 65536 ELSE raw

\* the soil moisture driver has returned from a transaction that delivered
\* two bytes
SmsRead == "sms" \in DOMAIN inp /\ "sms" \in DOMAIN vals /\ inp["sms"].ok

\* C8 as stated: read returns the signed 16-bit decoding of the word plus
\* 4800, below 4800 when bit 15 is set.
C8_SignedPlusTrim ==
    SmsRead =>
        LET raw == inp["sms"].data[1] * 256 + inp["sms"].data[2]
        IN  /\ vals["sms"] = Signed16(raw) + 4800
            /\ raw >= 32768 => vals["sms"] < 4800

\* C8 amended: read returns the unsigned big-endian 16-bit word of the two
\* bytes with no offset, so a word with bit 15 set yields a value of at
\* least 32768.
C8_UnsignedWord ==
    SmsRead =>
        /\ vals["sms"] \in 0..65535
        /\ vals["sms"] \div 256 = inp["sms"].data[1]
        /\ vals["sms"] % 256 = inp["sms"].data[2]
        /\ inp["sms"].data[1] >= 128 => vals["sms"] >= 32768

\* C8 witness: a word with bit 15 set has been read
C8_Witness == SmsRead /\ inp["sms"].data[1] >= 128 /\ pc = "returned"

\* C9: a failure of the database step does not end the process: no
\* exception leaves the try statement, and the row is by then in both CSV
\* files.
C9_DbFailureIsolated ==
    /\ exc.at # "gardenmon_main"
    /\ pc = "db" =>
          /\ Len(files[main_csv]) > 0
          /\ files[main_csv][Len(files[main_csv])] = row
          /\ files[daily_csv(current_time)][Len(files[daily_csv(current_time)])] = row

\* C10: the value an I2C driver's get_value returns for a failed transaction
\* is none of the values it returns for a transaction that delivered bytes
\* (for the ambient driver, in neither of its two quantities).
C10_SentinelOutOfRange ==
    /\ "aths" \in DOMAIN inp \cap DOMAIN vals /\ inp["aths"].ok =>
          /\ vals["aths"].temperature # aths_get_value(Failed).val.temperature
          /\ vals["aths"].humidity # aths_get_value(Failed).val.humidity
          /\ RatLess(vals["aths"].temperature, aths_get_value(Failed).val.temperature)
          /\ RatLess(vals["aths"].humidity, aths_get_value(Failed).val.humidity)
    /\ "sms" \in DOMAIN inp \cap DOMAIN vals /\ inp["sms"].ok =>
          vals["sms"] < sms_get_value(Failed).val
    /\ "als" \in DOMAIN inp \cap DOMAIN vals /\ inp["als"].ok =>
          /\ vals["als"] # als_get_value(Failed).val
          /\ RatLess(vals["als"], als_get_value(Failed).val)

\* C10 witness: the largest word of the soil moisture ADC has been read
C10_Witness ==
    /\ pc = "returned"
    /\ "sms" \in DOMAIN inp \cap DOMAIN vals
    /\ inp["sms"].ok
    /\ vals["sms"] = 65535

====
